---- MODULE Spec2Model ----
(***************************************************************************)
(* A model of the ListMmf column-file tools:                               *)
(*   scripts/listmmf_reader.py      header decoding, read_listmmf, the     *)
(*                                  epoch converters, read_mmf             *)
(*   scripts/scan_listmmf_stats.py  the corpus scan and its accumulator    *)
(*   scripts/mmf_to_parquet.py      the column merge and the tool's main   *)
(*                                                                         *)
(* Each tool is a specification of its own over the module's variables:    *)
(*   SpecEpoch   the converters applied to arrays of ticks / seconds       *)
(*   SpecReader  read_listmmf applied to one file                          *)
(*   SpecReadMmf read_mmf applied to one file                              *)
(*   SpecScan    scan_dir walking a corpus, one file per step              *)
(*   SpecMerge   main of mmf_to_parquet, one column per step               *)
(* A specification leaves the variables of the other tools at their idle   *)
(* values.                                                                 *)
(***************************************************************************)
EXTENDS Integers, Sequences, FiniteSets, TLC

VARIABLES
    eTicks,         \* the converters: an int64 array of .NET ticks
    eSeconds,       \* an int32 array of Unix seconds
    eDone,          \* which of the two arrays have been converted
    eTicksOut,      \* convert_datetime's result
    eSecondsOut     \* convert_unixseconds' result

VARIABLES
    rFile,          \* read_listmmf: the file at filepath
    rCopy,          \* its copy argument
    rAsDatetime,    \* read_mmf: its as_datetime argument
    rPc,            \* "start" before the call, "done" after it
    rResult         \* what the call returned or raised

evars == <<eTicks, eSeconds, eDone, eTicksOut, eSecondsOut>>

VARIABLES
    sPc,            \* scan_dir: "walking", "done" (returned) or "aborted" (raised)
    sWalked,        \* the directory entries os.walk has yielded so far, in order
    sAcc,           \* scan_dir's local counters and its results list
    sStderr,        \* the lines printed to stderr
    sResult         \* the dict scan_dir returned

rvars == <<rFile, rCopy, rAsDatetime, rPc, rResult>>

svars == <<sPc, sWalked, sAcc, sStderr, sResult>>

VARIABLES
    mCall,          \* mmf_to_parquet: the run, main's arguments or the dict of files
    mPc,            \* "start", "reading", then "exit", "returned" or "raised"
    mFiles,         \* the dict files of convert_to_parquet
    mColumns,       \* its dict columns
    mAttempts,      \* how many items of files the loop has taken
    mDf,            \* the DataFrame
    mOutput,        \* the output file
    mStderr,        \* the lines printed to stderr
    mRaised,        \* the message of the exception a called function raised
    mExit           \* the process's exit code, -1 while it runs

mvars == <<mCall, mPc, mFiles, mColumns, mAttempts, mDf, mOutput, mStderr, mRaised, mExit>>

vars == <<evars, rvars, svars, mvars>>

(***************************************************************************)
(* 64-bit integers.  numpy's int64 arithmetic is two's complement and      *)
(* wraps silently.  A 64-bit word is four 16-bit limbs, least significant  *)
(* first; its signed value is the two's complement reading.                *)
(***************************************************************************)
Base == 2^16

Word64 == [1..4 -> 0..(Base - 1)]

Zero64 == <<0, 0, 0, 0>>

\* The 5-limb sum of two words: four limbs and the carry out.
AddWide(a, b) ==
    LET s1 == a[1] + b[1]
        s2 == a[2] + b[2] + (s1 \div Base)
        s3 == a[3] + b[3] + (s2 \div Base)
        s4 == a[4] + b[4] + (s3 \div Base)
    IN  <<s1 % Base, s2 % Base, s3 % Base, s4 % Base, s4 \div Base>>

\* a + b modulo 2^64
Add64(a, b) == SubSeq(AddWide(a, b), 1, 4)

\* -a modulo 2^64
Neg64(a) ==
    Add64(<<Base - 1 - a[1], Base - 1 - a[2], Base - 1 - a[3], Base - 1 - a[4]>>,
          <<1, 0, 0, 0>>)

\* a - b modulo 2^64
Sub64(a, b) == Add64(a, Neg64(b))

\* The 5-limb product of the unsigned word a and a small k (0 <= k < 2^15).
MulWide(a, k) ==
    LET p1 == a[1] * k
        p2 == a[2] * k + (p1 \div Base)
        p3 == a[3] * k + (p2 \div Base)
        p4 == a[4] * k + (p3 \div Base)
    IN  <<p1 % Base, p2 % Base, p3 % Base, p4 % Base, p4 \div Base>>

\* a * k modulo 2^64 (two's complement: the same limbs for signed a)
Mul64(a, k) == SubSeq(MulWide(a, k), 1, 4)

IsNeg64(a) == a[4] >= Base \div 2

\* unsigned a < b
ULess64(a, b) ==
    \E i \in 1..4 : a[i] < b[i] /\ \A j \in (i + 1)..4 : a[j] = b[j]

\* signed a < b
Less64(a, b) ==
    IF IsNeg64(a) # IsNeg64(b) THEN IsNeg64(a) ELSE ULess64(a, b)

Leq64(a, b) == a = b \/ Less64(a, b)

Int64Min == <<0, 0, 0, Base \div 2>>

Int64Max == <<Base - 1, Base - 1, Base - 1, Base \div 2 - 1>>

Int32Min == (-2147483647) - 1

Int32Max == 2147483647

\* The word of an int32 n (sign-extended).
FromInt32(n) ==
    IF n >= 0
    THEN <<n % Base, n \div Base, 0, 0>>
    ELSE LET m == (n + 2147483647) + 1      \* n + 2^31, 0 <= m < 2^31
         IN  <<m % Base, (m \div Base) + Base \div 2, Base - 1, Base - 1>>

\* The word written as a sequence of at most 20 decimal digits, most significant
\* first, read four digits at a time.
FromDec(ds) ==
    LET D(k) == IF k < Len(ds) THEN ds[Len(ds) - k] ELSE 0
        Chunk(j) == D(4*j) + 10 * D(4*j + 1) + 100 * D(4*j + 2) + 1000 * D(4*j + 3)
        Shift(acc, j) == Add64(Mul64(acc, 10000), <<Chunk(j), 0, 0, 0>>)
    IN  Shift(Shift(Shift(Shift(<<Chunk(4), 0, 0, 0>>, 3), 2), 1), 0)

\* Unsigned division of a word by a small d: <<quotient, remainder>>.
DivSmall(a, d) ==
    LET n4 == a[4]
        n3 == (n4 % d) * Base + a[3]
        n2 == (n3 % d) * Base + a[2]
        n1 == (n2 % d) * Base + a[1]
    IN  <<(<<n1 \div d, n2 \div d, n3 \div d, n4 \div d>>), n1 % d>>

\* The decimal digits of the unsigned word a, most significant first (none for 0),
\* taken four at a time.
UDigits(a) ==
    LET q0 == DivSmall(a, 10000)
        q1 == DivSmall(q0[1], 10000)
        q2 == DivSmall(q1[1], 10000)
        q3 == DivSmall(q2[1], 10000)
        q4 == DivSmall(q3[1], 10000)
        chunks == <<q0[2], q1[2], q2[2], q3[2], q4[2]>>
        Pow10(e) == IF e = 0 THEN 1 ELSE IF e = 1 THEN 10 ELSE IF e = 2 THEN 100 ELSE 1000
        all == [k \in 1..20 |->
                   LET p == 20 - k IN (chunks[(p \div 4) + 1] \div Pow10(p % 4)) % 10]
        nz == {k \in 1..20 : all[k] # 0}
        first == CHOOSE k \in nz : \A j \in nz : k <= j
    IN  IF a = Zero64 THEN <<>> ELSE SubSeq(all, first, 20)

\* The signed decimal reading of a word: its sign and the digits of its magnitude
\* (no digits for zero).
ToDec(a) ==
    IF IsNeg64(a) THEN [neg |-> TRUE, digits |-> UDigits(Neg64(a))]
    ELSE [neg |-> FALSE, digits |-> UDigits(a)]

(***************************************************************************)
(* listmmf_reader.py: the file format and the header.                      *)
(*                                                                         *)
(* A file is [exists, path, bytes, meta]: bytes is its content, a sequence *)
(* of 0..255; meta records what its writer stored (version, datatype,      *)
(* count, or "none" for a file without a whole header) and is never read   *)
(* by the tools.                                                           *)
(***************************************************************************)
DATA_TYPE_NAMES ==
    <<"AnyStruct", "Bit", "SByte", "Byte", "Int16", "UInt16", "Int32", "UInt32",
      "Int64", "UInt64", "Single", "Double", "DateTime", "UnixSeconds",
      "Int24AsInt64", "Int40AsInt64", "Int48AsInt64", "Int56AsInt64",
      "UInt24AsInt64", "UInt40AsInt64", "UInt48AsInt64", "UInt56AsInt64">>

\* DATA_TYPE_NAMES.get(datatype, f"Unknown({datatype})")
datatype_name(datatype) ==
    IF datatype \in 0..(Len(DATA_TYPE_NAMES) - 1)
    THEN DATA_TYPE_NAMES[datatype + 1]
    ELSE "Unknown(" \o ToString(datatype) \o ")"

\* The map with UnixSeconds forgotten.
DTYPE_MAP_no13 ==
    2 :> "int8" @@ 3 :> "uint8" @@ 4 :> "int16" @@ 5 :> "uint16" @@
    6 :> "int32" @@ 7 :> "uint32" @@ 8 :> "int64" @@ 9 :> "uint64" @@
    10 :> "float32" @@ 11 :> "float64" @@ 12 :> "int64"

\* DataType code -> numpy dtype (only the standard types)
DTYPE_MAP ==
    2 :> "int8" @@ 3 :> "uint8" @@ 4 :> "int16" @@ 5 :> "uint16" @@
    6 :> "int32" @@ 7 :> "uint32" @@ 8 :> "int64" @@ 9 :> "uint64" @@
    10 :> "float32" @@ 11 :> "float64" @@ 12 :> "int64" @@ 13 :> "int32"

\* numpy's dtype(...).itemsize
itemsize(dtype) ==
    CASE dtype \in {"int8", "uint8"} -> 1
      [] dtype \in {"int16", "uint16"} -> 2
      [] dtype \in {"int32", "uint32", "float32"} -> 4
      [] dtype \in {"int64", "uint64", "float64", "datetime64[ns]"} -> 8

\* The set with the last code forgotten.
ODD_BYTE_TYPES_short == {14, 15, 16, 17, 18, 19, 20}

ODD_BYTE_TYPES == {14, 15, 16, 17, 18, 19, 20, 21}

HEADER_SIZE == 16

\* struct '<i': four bytes, little-endian, two's complement
UnpackInt32(b) ==
    b[1] + 256 * b[2] + 65536 * b[3]
        + 16777216 * (IF b[4] >= 128 THEN b[4] - 256 ELSE b[4])

\* struct '<q': eight bytes, little-endian, two's complement
UnpackInt64(b) ==
    <<b[1] + 256 * b[2], b[3] + 256 * b[4], b[5] + 256 * b[6], b[7] + 256 * b[8]>>

\* struct.unpack('<iiq', header_bytes)
unpack_iiq(header_bytes) ==
    [version  |-> UnpackInt32(SubSeq(header_bytes, 1, 4)),
     datatype |-> UnpackInt32(SubSeq(header_bytes, 5, 8)),
     count    |-> UnpackInt64(SubSeq(header_bytes, 9, 16))]

\* The layout's writer: an int32 and an int64 as little-endian bytes.
PackInt32(n) ==
    LET m == IF n >= 0 THEN n ELSE (n + 2147483647) + 1
    IN  <<m % 256, (m \div 256) % 256, (m \div 65536) % 256,
          (m \div 16777216) + (IF n >= 0 THEN 0 ELSE 128)>>

PackInt64(w) ==
    <<w[1] % 256, w[1] \div 256, w[2] % 256, w[2] \div 256,
      w[3] % 256, w[3] \div 256, w[4] % 256, w[4] \div 256>>

\* A file holding the header (version, datatype, count) and then the payload.
MkFile(path, version, datatype, count, payload) ==
    [exists |-> TRUE, path |-> path,
     bytes  |-> PackInt32(version) \o PackInt32(datatype) \o PackInt64(count)
                    \o payload,
     meta   |-> [kind |-> "header", version |-> version, datatype |-> datatype,
                 count |-> count]]

\* A file of fewer than 16 bytes, and a path that names no file.
ShortFile(path, bytes) ==
    [exists |-> TRUE, path |-> path, bytes |-> bytes, meta |-> [kind |-> "none"]]

MissingFile(path) ==
    [exists |-> FALSE, path |-> path, bytes |-> <<>>, meta |-> [kind |-> "none"]]

\* A raised ListMmfReadError with its message, piece by piece.
Raise(msg) == [ok |-> FALSE, error |-> msg]

NoHeader == [version |-> 0, datatype |-> 0, datatype_name |-> "", count |-> Zero64]

\* read_header: [ok, error, header]
read_header(file) ==
    IF ~file.exists THEN Raise(<<"File not found: ", file.path>>) @@ [header |-> NoHeader]
    ELSE IF Len(file.bytes) < HEADER_SIZE
    THEN Raise(<<"File too small (< 16 bytes): ", file.path>>) @@ [header |-> NoHeader]
    ELSE LET u == unpack_iiq(SubSeq(file.bytes, 1, HEADER_SIZE))
         IN  [ok |-> TRUE, error |-> <<>>,
              header |-> [version |-> u.version,
                          datatype |-> u.datatype,
                          datatype_name |-> datatype_name(u.datatype),
                          count |-> u.count]]

(***************************************************************************)
(* listmmf_reader.py: read_listmmf.                                        *)
(*                                                                         *)
(* An array is [dtype, elems, mapped]: elems holds each element as the     *)
(* itemsize bytes it occupies in memory, in order (little-endian).         *)
(***************************************************************************)
NoArray == [dtype |-> "none", elems |-> <<>>, mapped |-> FALSE]

\* A small count as an integer: words below 2^15.
IsSmall64(w) == w[4] = 0 /\ w[3] = 0 /\ w[2] = 0 /\ w[1] < Base \div 2

\* np.memmap(filepath, dtype=dtype, mode='r', offset=offset, shape=(count,)):
\* [ok, exc, array].  numpy computes the mapping's length offset + count * itemsize
\* in intp, which wraps; mmap refuses a negative length and one beyond the file's
\* size, and maps the whole file for length 0; ndarray refuses a negative dimension,
\* a size beyond intp, and a buffer shorter than offset + count * itemsize.
memmap(file, dtype, offset, count) ==
    LET w      == itemsize(dtype)
        flen   == Len(file.bytes)
        prod   == MulWide(count, w)
        bytes  == Add64(FromInt32(offset), SubSeq(prod, 1, 4))
        maplen == IF bytes = Zero64 THEN flen ELSE bytes[1]
        fail(e) == [ok |-> FALSE, exc |-> e, array |-> NoArray]
    IN  IF IsNeg64(bytes) THEN fail("memory mapped length must be positive")
        ELSE IF bytes # Zero64 /\ Less64(FromInt32(flen), bytes)
        THEN fail("mmap length is greater than file size")
        ELSE IF IsNeg64(count) THEN fail("negative dimensions are not allowed")
        ELSE IF prod[5] > 0 \/ IsNeg64(SubSeq(prod, 1, 4))
        THEN fail("array is too big")
        ELSE IF Less64(FromInt32(maplen - offset), SubSeq(prod, 1, 4))
        THEN fail("buffer is too small for requested array")
        ELSE [ok |-> TRUE, exc |-> "",
              array |-> [dtype |-> dtype,
                         elems |-> [i \in 1..count[1] |->
                             SubSeq(file.bytes, offset + (i - 1) * w + 1,
                                    offset + i * w)],
                         mapped |-> TRUE]]

\* np.array(data): the same elements in a buffer of their own
np_array(data) == [data EXCEPT !.mapped = FALSE]

Failed(msg) == Raise(msg) @@ [array |-> NoArray]

\* read_listmmf mapping the elements from offset 0 instead of HEADER_SIZE.
read_listmmf_offset0(file, copy) ==
    LET h == read_header(file) IN
    IF ~h.ok THEN Failed(h.error)
    ELSE IF h.header.datatype \in ODD_BYTE_TYPES
    THEN Failed(<<"Odd-byte type ", h.header.datatype_name,
                  " is not supported. Consider exporting from C# to a standard format first.">>)
    ELSE IF h.header.datatype = 0
    THEN Failed(<<"Cannot read AnyStruct files (DataType=0)">>)
    ELSE IF h.header.datatype = 1
    THEN Failed(<<"BitArray files require special handling (not yet implemented). Use the C# library or implement bit unpacking.">>)
    ELSE IF h.header.datatype \notin DOMAIN DTYPE_MAP
    THEN Failed(<<"Unsupported DataType: ", h.header.datatype_name>>)
    ELSE LET m == memmap(file, DTYPE_MAP[h.header.datatype], 0,
                         h.header.count)
         IN  IF ~m.ok
             THEN Failed(<<"Failed to read data from ", file.path, ": ", m.exc>>)
             ELSE [ok |-> TRUE, error |-> <<>>,
                   array |-> IF copy THEN np_array(m.array) ELSE m.array]

\* read_listmmf: [ok, error, array]
read_listmmf(file, copy) ==
    LET h == read_header(file) IN
    IF ~h.ok THEN Failed(h.error)
    ELSE IF h.header.datatype \in ODD_BYTE_TYPES
    THEN Failed(<<"Odd-byte type ", h.header.datatype_name,
                  " is not supported. Consider exporting from C# to a standard format first.">>)
    ELSE IF h.header.datatype = 0
    THEN Failed(<<"Cannot read AnyStruct files (DataType=0)">>)
    ELSE IF h.header.datatype = 1
    THEN Failed(<<"BitArray files require special handling (not yet implemented). Use the C# library or implement bit unpacking.">>)
    ELSE IF h.header.datatype \notin DOMAIN DTYPE_MAP
    THEN Failed(<<"Unsupported DataType: ", h.header.datatype_name>>)
    ELSE LET m == memmap(file, DTYPE_MAP[h.header.datatype], HEADER_SIZE,
                         h.header.count)
         IN  IF ~m.ok
             THEN Failed(<<"Failed to read data from ", file.path, ": ", m.exc>>)
             ELSE [ok |-> TRUE, error |-> <<>>,
                   array |-> IF copy THEN np_array(m.array) ELSE m.array]

(***************************************************************************)
(* listmmf_reader.py: the epoch converters.                                *)
(***************************************************************************)
\* 621355968000000000, the .NET ticks of 1970-01-01
DOTNET_TO_UNIX_TICKS == FromDec(<<6,2,1,3,5,5,9,6,8,0,0,0,0,0,0,0,0,0>>)

\* numpy datetime64: the int64 minimum is NaT, every other word is that many units
\* since the Unix epoch.
NaT == Int64Min

\* ndarray.astype('datetime64[ns]') of an int64 array keeps every word.
astype_datetime64(arr) == arr

\* Casting datetime64[s] to datetime64[ns] multiplies by 10^9 (NaT stays NaT).
SecondsToNs(x) == IF x = NaT THEN NaT ELSE Mul64(Mul64(Mul64(x, 1000), 1000), 1000)

\* A converter that scales the tick difference by 10 instead of 100.
convert_datetime_x10(ticks) ==
    astype_datetime64([i \in 1..Len(ticks) |->
        Mul64(Sub64(ticks[i], DOTNET_TO_UNIX_TICKS), 10)])

\* unix_ns = (ticks - DOTNET_TO_UNIX_TICKS) * 100, elementwise on an int64 array
convert_datetime(ticks) ==
    astype_datetime64([i \in 1..Len(ticks) |->
        Mul64(Sub64(ticks[i], DOTNET_TO_UNIX_TICKS), 100)])

\* seconds.astype('datetime64[s]').astype('datetime64[ns]') on int32 seconds
convert_unixseconds(seconds) ==
    [i \in 1..Len(seconds) |-> SecondsToNs(FromInt32(seconds[i]))]

(***************************************************************************)
(* scan_listmmf_stats.py.                                                  *)
(*                                                                         *)
(* A directory entry is [name, readable, file]: the file's name, whether   *)
(* open() succeeds on it, and the file.  Python's integers are unbounded;  *)
(* the counts of the corpora scanned here are small.                       *)
(***************************************************************************)
\* str.lower() on the names and column names that occur here.
lower(str) ==
    CASE str = "B.BT" -> "b.bt"
      [] str = "Timestamp" -> "timestamp"
      [] str = "TIME" -> "time"
      [] str = "Close" -> "close"
      [] OTHER -> str

\* str.endswith(".bt") on the lower-cased names that occur here.
endswith_bt(str) == str \in {"a.bt", "b.bt"}

ELEM_WIDTH_BYTES ==
    1 :> 1 @@ 2 :> 1 @@ 3 :> 1 @@ 4 :> 2 @@ 5 :> 2 @@ 6 :> 4 @@ 7 :> 4 @@
    8 :> 8 @@ 9 :> 8 @@ 10 :> 4 @@ 11 :> 8 @@ 12 :> 8 @@ 13 :> 4 @@
    14 :> 3 @@ 15 :> 5 @@ 16 :> 6 @@ 17 :> 7 @@
    18 :> 3 @@ 19 :> 5 @@ 20 :> 6 @@ 21 :> 7

ODD_BYTE_DT == {14, 15, 16, 17, 18, 19, 20, 21}

\* The fallback widths with every odd-byte type compared against 8 bytes.
ODD_FALLBACK_WIDTH_all8 ==
    14 :> 8 @@ 18 :> 8 @@ 15 :> 8 @@ 16 :> 8 @@ 17 :> 8 @@
    19 :> 8 @@ 20 :> 8 @@ 21 :> 8

ODD_FALLBACK_WIDTH ==
    14 :> 4 @@ 18 :> 4 @@ 15 :> 8 @@ 16 :> 8 @@ 17 :> 8 @@
    19 :> 8 @@ 20 :> 8 @@ 21 :> 8

LISTMMF_HEADER_SIZE == 16

\* The Python int of an unpacked count (of magnitude below 2^16).
PyInt(w) == IF IsNeg64(w) THEN -(Neg64(w)[1]) ELSE w[1]

None == [some |-> FALSE, path |-> "", size_bytes |-> 0, version |-> 0,
         data_type |-> 0, count |-> 0]

\* read_header without its try/except: a failing open() propagates.
scan_read_header_notry(entry) ==
    LET size == Len(entry.file.bytes) IN
    IF size < LISTMMF_HEADER_SIZE
    THEN [info |-> None, raised |-> FALSE,
          log |-> <<"WARN: File too small for header: ", entry.name>>]
    ELSE IF ~entry.readable
    THEN [info |-> None, raised |-> TRUE, log |-> <<>>]
    ELSE LET u == unpack_iiq(SubSeq(entry.file.bytes, 1, LISTMMF_HEADER_SIZE))
         IN  [info |-> [some |-> TRUE, path |-> entry.name, size_bytes |-> size,
                        version |-> u.version, data_type |-> u.datatype,
                        count |-> PyInt(u.count)],
              raised |-> FALSE,
              log |-> <<>>]

\* read_header (scan_listmmf_stats.py): [info, raised, log]; info is a FileInfo or
\* None, log the line printed to stderr, raised whether an exception left the call.
scan_read_header(entry) ==
    LET size == Len(entry.file.bytes) IN
    IF size < LISTMMF_HEADER_SIZE
    THEN [info |-> None, raised |-> FALSE,
          log |-> <<"WARN: File too small for header: ", entry.name>>]
    ELSE IF ~entry.readable
    THEN [info |-> None, raised |-> FALSE,
          log |-> <<"ERROR: Failed reading header for ", entry.name>>]
    ELSE LET u == unpack_iiq(SubSeq(entry.file.bytes, 1, LISTMMF_HEADER_SIZE))
         IN  [info |-> [some |-> TRUE, path |-> entry.name, size_bytes |-> size,
                        version |-> u.version, data_type |-> u.datatype,
                        count |-> PyInt(u.count)],
              raised |-> FALSE,
              log |-> <<>>]

\* collections.Counter: a missing key counts 0
CounterGet(c, k) == IF k \in DOMAIN c THEN c[k] ELSE 0

\* c[k] += v
CounterAdd(c, k, v) == (k :> (CounterGet(c, k) + v)) @@ c

Max(a, b) == IF a >= b THEN a ELSE b

\* scan_dir's locals before the walk
EmptyAcc ==
    [total_bytes |-> 0, total_files |-> 0,
     by_dtype_files |-> <<>>, by_dtype_items |-> <<>>, by_dtype_bytes |-> <<>>,
     odd_files |-> 0, odd_saved_bytes_total |-> 0,
     odd_saved_bytes_by_dtype |-> <<>>,
     results |-> <<>>]

\* The loop body with the header's count added to items as it is.
accumulate_rawcount(acc, info) ==
    LET dt == info.data_type
        a1 == [acc EXCEPT
                 !.total_files = @ + 1,
                 !.total_bytes = @ + info.size_bytes,
                 !.by_dtype_files = CounterAdd(@, dt, 1),
                 !.by_dtype_items = CounterAdd(@, dt, info.count),
                 !.by_dtype_bytes = CounterAdd(@, dt, info.size_bytes)]
        a2 == IF dt \in ODD_BYTE_DT
              THEN LET odd   == ELEM_WIDTH_BYTES[dt]
                       fb    == ODD_FALLBACK_WIDTH[dt]
                       saved == (fb - odd) * info.count
                   IN  IF dt \in DOMAIN ELEM_WIDTH_BYTES /\ info.count >= 0 /\ saved > 0
                       THEN [a1 EXCEPT
                               !.odd_files = @ + 1,
                               !.odd_saved_bytes_total = @ + saved,
                               !.odd_saved_bytes_by_dtype = CounterAdd(@, dt, saved)]
                       ELSE [a1 EXCEPT !.odd_files = @ + 1]
              ELSE a1
    IN  [a2 EXCEPT !.results = Append(@, info)]

\* The loop body counting an odd-byte file only when it saves bytes.
accumulate_oddinside(acc, info) ==
    LET dt == info.data_type
        a1 == [acc EXCEPT
                 !.total_files = @ + 1,
                 !.total_bytes = @ + info.size_bytes,
                 !.by_dtype_files = CounterAdd(@, dt, 1),
                 !.by_dtype_items = CounterAdd(@, dt, Max(0, info.count)),
                 !.by_dtype_bytes = CounterAdd(@, dt, info.size_bytes)]
        a2 == IF dt \in ODD_BYTE_DT
              THEN LET odd   == ELEM_WIDTH_BYTES[dt]
                       fb    == ODD_FALLBACK_WIDTH[dt]
                       saved == (fb - odd) * info.count
                   IN  IF dt \in DOMAIN ELEM_WIDTH_BYTES /\ info.count >= 0 /\ saved > 0
                       THEN [a1 EXCEPT
                               !.odd_files = @ + 1,
                               !.odd_saved_bytes_total = @ + saved,
                               !.odd_saved_bytes_by_dtype = CounterAdd(@, dt, saved)]
                       ELSE a1
              ELSE a1
    IN  [a2 EXCEPT !.results = Append(@, info)]

\* The loop body of scan_dir for a decoded header (lines 156-175).
accumulate(acc, info) ==
    LET dt == info.data_type
        a1 == [acc EXCEPT
                 !.total_files = @ + 1,
                 !.total_bytes = @ + info.size_bytes,
                 !.by_dtype_files = CounterAdd(@, dt, 1),
                 !.by_dtype_items = CounterAdd(@, dt, Max(0, info.count)),
                 !.by_dtype_bytes = CounterAdd(@, dt, info.size_bytes)]
        a2 == IF dt \in ODD_BYTE_DT
              THEN LET odd   == ELEM_WIDTH_BYTES[dt]
                       fb    == ODD_FALLBACK_WIDTH[dt]
                       saved == (fb - odd) * info.count
                   IN  IF dt \in DOMAIN ELEM_WIDTH_BYTES /\ info.count >= 0 /\ saved > 0
                       THEN [a1 EXCEPT
                               !.odd_files = @ + 1,
                               !.odd_saved_bytes_total = @ + saved,
                               !.odd_saved_bytes_by_dtype = CounterAdd(@, dt, saved)]
                       ELSE [a1 EXCEPT !.odd_files = @ + 1]
              ELSE a1
    IN  [a2 EXCEPT !.results = Append(@, info)]

\* One iteration of scan_dir's loop over a directory entry (lines 148-175):
\* [acc, raised, log].
scan_step(acc, entry) ==
    IF ~endswith_bt(lower(entry.name))
    THEN [acc |-> acc, raised |-> FALSE, log |-> <<>>]
    ELSE LET r == scan_read_header(entry)
         IN  IF r.raised THEN [acc |-> acc, raised |-> TRUE, log |-> r.log]
             ELSE IF ~r.info.some THEN [acc |-> acc, raised |-> FALSE, log |-> r.log]
             ELSE [acc |-> accumulate(acc, r.info), raised |-> FALSE, log |-> r.log]

\* The dict scan_dir returns.
scan_return(acc) ==
    [total_files |-> acc.total_files,
     total_bytes |-> acc.total_bytes,
     by_dtype_files |-> acc.by_dtype_files,
     by_dtype_items |-> acc.by_dtype_items,
     by_dtype_bytes |-> acc.by_dtype_bytes,
     odd_files |-> acc.odd_files,
     odd_saved_bytes_total |-> acc.odd_saved_bytes_total,
     odd_saved_bytes_by_dtype |-> acc.odd_saved_bytes_by_dtype]

(***************************************************************************)
(* listmmf_reader.py: read_mmf.                                            *)
(***************************************************************************)
\* The elements of an int64 array as words, of an int32 array as integers.
Int64Words(array) == [i \in 1..Len(array.elems) |-> UnpackInt64(array.elems[i])]

Int32Values(array) == [i \in 1..Len(array.elems) |-> UnpackInt32(array.elems[i])]

\* The datetime64[ns] array holding the given words.
DatetimeArray(words) ==
    [dtype |-> "datetime64[ns]",
     elems |-> [i \in 1..Len(words) |-> PackInt64(words[i])],
     mapped |-> FALSE]

\* read_mmf that converts whether or not as_datetime asks for it.
read_mmf_always(file, as_datetime) ==
    LET convert(data, header) ==
            IF ~data.ok THEN data
            ELSE IF header.datatype = 12
            THEN [data EXCEPT
                    !.array = DatetimeArray(convert_datetime(Int64Words(data.array)))]
            ELSE IF header.datatype = 13
            THEN [data EXCEPT
                    !.array = DatetimeArray(convert_unixseconds(Int32Values(data.array)))]
            ELSE data
    IN  convert(read_listmmf(file, FALSE), read_header(file).header)

\* read_mmf: [ok, error, array]
read_mmf(file, as_datetime) ==
    LET convert(data, header) ==
            IF ~data.ok THEN data
            ELSE IF as_datetime /\ header.datatype = 12
            THEN [data EXCEPT
                    !.array = DatetimeArray(convert_datetime(Int64Words(data.array)))]
            ELSE IF as_datetime /\ header.datatype = 13
            THEN [data EXCEPT
                    !.array = DatetimeArray(convert_unixseconds(Int32Values(data.array)))]
            ELSE data
    IN  convert(read_listmmf(file, FALSE), read_header(file).header)

(***************************************************************************)
(* mmf_to_parquet.py.                                                      *)
(*                                                                         *)
(* A dict is the sequence of its [key, value] items in insertion order.  A *)
(* directory is the sequence of its entries [stem, ext, file] in the order *)
(* the file system lists them; an entry whose file does not exist is a     *)
(* dangling link.  A line of output is the sequence of its pieces.  The    *)
(* progress lines on stdout are left out.                                  *)
(***************************************************************************)
DictKeys(d) == {d[i].key : i \in 1..Len(d)}

\* d[k] = v: a new key goes last, a present key keeps its place
DictSet(d, k, v) ==
    IF k \in DictKeys(d)
    THEN [i \in 1..Len(d) |-> IF d[i].key = k THEN [key |-> k, value |-> v] ELSE d[i]]
    ELSE Append(d, [key |-> k, value |-> v])

\* (directory / f"{col}{ext}").exists()
PathExists(directory, col, ext) ==
    \E i \in 1..Len(directory) :
        directory[i].stem = col /\ directory[i].ext = ext /\ directory[i].file.exists

PathOf(directory, col, ext) ==
    directory[CHOOSE i \in 1..Len(directory) :
                  directory[i].stem = col /\ directory[i].ext = ext].file

\* directory.glob('*' + ext), in the directory's order
glob(directory, ext) ==
    LET Match(e) == e.ext = ext IN SelectSeq(directory, Match)

\* The loop over column_names of find_mmf_files: [files, log].
RECURSIVE find_named(_, _, _, _)
find_named(dirpath, directory, column_names, acc) ==
    IF column_names = <<>> THEN acc
    ELSE LET col == Head(column_names)
             files == IF PathExists(directory, col, ".mmf")
                      THEN DictSet(acc.files, col, PathOf(directory, col, ".mmf"))
                      ELSE IF PathExists(directory, col, ".bt")
                      THEN DictSet(acc.files, col, PathOf(directory, col, ".bt"))
                      ELSE acc.files
             log == IF col \in DictKeys(files) THEN acc.log
                    ELSE Append(acc.log,
                                <<"WARNING: Column '", col, "' not found in ", dirpath>>)
         IN  find_named(dirpath, directory, Tail(column_names),
                        [files |-> files, log |-> log])

\* The loop over the globbed paths of find_mmf_files.
RECURSIVE find_globbed(_, _)
find_globbed(entries, files) ==
    IF entries = <<>> THEN files
    ELSE find_globbed(Tail(entries),
                      DictSet(files, Head(entries).stem, Head(entries).file))

\* find_mmf_files that falls back on the glob when it finds none of the names.
find_mmf_files_fallback(dirpath, directory, column_names) ==
    LET auto == find_globbed(glob(directory, ".mmf") \o glob(directory, ".bt"), <<>>)
        pick(named) == IF named.files = <<>>
                       THEN [files |-> auto, log |-> named.log] ELSE named
    IN  IF column_names # <<>>
        THEN pick(find_named(dirpath, directory, column_names,
                             [files |-> <<>>, log |-> <<>>]))
        ELSE [files |-> auto, log |-> <<>>]

\* find_mmf_files(directory, column_names): [files, log]; no names is <<>>
find_mmf_files(dirpath, directory, column_names) ==
    IF column_names # <<>>
    THEN find_named(dirpath, directory, column_names, [files |-> <<>>, log |-> <<>>])
    ELSE [files |-> find_globbed(glob(directory, ".mmf") \o glob(directory, ".bt"), <<>>),
          log |-> <<>>]

\* A pandas Series: its name, its dtype and its values, each as the bytes of one
\* element.
NoSeries == [name |-> "", dtype |-> "none", values |-> <<>>]

TimeNames == {"timestamp", "datetime", "time"}

\* read_column that compares the name as it is written.
read_column_exactcase(file, column_name) ==
    LET Series(header, data) ==
            IF ~header.ok
            THEN [ok |-> FALSE, error |-> header.error, series |-> NoSeries]
            ELSE IF ~data.ok
            THEN [ok |-> FALSE, error |-> data.error, series |-> NoSeries]
            ELSE [ok |-> TRUE, error |-> <<>>,
                  series |-> [name |-> column_name, dtype |-> data.array.dtype,
                              values |-> data.array.elems]]
    IN  Series(read_header(file), read_mmf(file, column_name \in TimeNames))

\* read_column: [ok, error, series]
read_column(file, column_name) ==
    LET Series(header, data) ==
            IF ~header.ok
            THEN [ok |-> FALSE, error |-> header.error, series |-> NoSeries]
            ELSE IF ~data.ok
            THEN [ok |-> FALSE, error |-> data.error, series |-> NoSeries]
            ELSE [ok |-> TRUE, error |-> <<>>,
                  series |-> [name |-> column_name, dtype |-> data.array.dtype,
                              values |-> data.array.elems]]
    IN  Series(read_header(file), read_mmf(file, lower(column_name) \in TimeNames))

(***************************************************************************)
(* pandas.  pd.DataFrame(dict of Series) aligns the Series on the union of *)
(* their indexes, here 0..n-1 for the longest length n.  A Series of that  *)
(* length is taken as it is.  A shorter one is reindexed: the new places   *)
(* hold the missing value, NaT in a datetime64 column and NaN in every     *)
(* other, and since no integer dtype has a NaN an integer column becomes   *)
(* float64, each element converted to the nearest double.                  *)
(*                                                                         *)
(* A cell is [kind, raw, f64]: kind "value" with the element's bytes in    *)
(* raw; kind "float64" with the double in f64, as its sign and its         *)
(* magnitude, an unsigned integer of five limbs; kind "NaN" or "NaT".      *)
(***************************************************************************)
IntDtypes ==
    {"int8", "uint8", "int16", "uint16", "int32", "uint32", "int64", "uint64"}

SignedDtypes == {"int8", "int16", "int32", "int64"}

\* The element's bytes widened to eight: sign-extended for a signed dtype.
Widen(dtype, bytes) ==
    LET fill == IF dtype \in SignedDtypes /\ bytes[Len(bytes)] >= 128 THEN 255 ELSE 0
    IN  bytes \o [i \in 1..(8 - Len(bytes)) |-> fill]

\* The number of significant bits of x < 2^16, and of an unsigned word.
BitLen16(x) == CHOOSE n \in 0..16 : x < 2^n /\ (n = 0 \/ x >= 2^(n - 1))

BitLen64(m) ==
    IF m[4] > 0 THEN 48 + BitLen16(m[4])
    ELSE IF m[3] > 0 THEN 32 + BitLen16(m[3])
    ELSE IF m[2] > 0 THEN 16 + BitLen16(m[2])
    ELSE BitLen16(m[1])

\* The unsigned word m rounded to 53 significant bits, ties to even: the magnitude
\* of the double nearest to m, in five limbs (2^64 when the rounding carries).
RoundToDouble(m) ==
    LET len == BitLen64(m) IN
    IF len <= 53 THEN m \o <<0>>
    ELSE LET unit  == 2^(len - 53)
             low   == m[1] % unit
             odd   == (m[1] \div unit) % 2 = 1
             floor == <<m[1] - low, m[2], m[3], m[4]>>
             up    == 2 * low > unit \/ (2 * low = unit /\ odd)
         IN  IF up THEN AddWide(floor, <<unit, 0, 0, 0>>) ELSE floor \o <<0>>

NoDouble == [neg |-> FALSE, mag |-> <<0, 0, 0, 0, 0>>]

\* ndarray.astype(float64) of one integer element
astype_float64(dtype, bytes) ==
    LET w   == UnpackInt64(Widen(dtype, bytes))
        neg == dtype \in SignedDtypes /\ IsNeg64(w)
    IN  [neg |-> neg, mag |-> RoundToDouble(IF neg THEN Neg64(w) ELSE w)]

ValueCell(bytes) == [kind |-> "value", raw |-> bytes, f64 |-> NoDouble]

FloatCell(d) == [kind |-> "float64", raw |-> <<>>, f64 |-> d]

MissingCell(dtype) ==
    [kind |-> IF dtype = "datetime64[ns]" THEN "NaT" ELSE "NaN", raw |-> <<>>,
     f64 |-> NoDouble]

\* Series.reindex(range(n)) as the DataFrame constructor applies it: a column
\* [name, dtype, cells]
reindex(series, n) ==
    IF Len(series.values) = n
    THEN [name |-> series.name, dtype |-> series.dtype,
          cells |-> [i \in 1..n |-> ValueCell(series.values[i])]]
    ELSE IF series.dtype \in IntDtypes
    THEN [name |-> series.name, dtype |-> "float64",
          cells |-> [i \in 1..n |->
                      IF i <= Len(series.values)
                      THEN FloatCell(astype_float64(series.dtype, series.values[i]))
                      ELSE MissingCell("float64")]]
    ELSE [name |-> series.name, dtype |-> series.dtype,
          cells |-> [i \in 1..n |->
                      IF i <= Len(series.values) THEN ValueCell(series.values[i])
                      ELSE MissingCell(series.dtype)]]

NoDataFrame == [built |-> FALSE, length |-> 0, columns |-> <<>>]

\* pd.DataFrame(columns) for a dict of Series
DataFrame(columns) ==
    LET lengths == {Len(columns[i].value.values) : i \in 1..Len(columns)}
        n == IF lengths = {} THEN 0 ELSE CHOOSE x \in lengths : \A y \in lengths : y <= x
    IN  [built |-> TRUE, length |-> n,
         columns |-> [i \in 1..Len(columns) |-> reindex(columns[i].value, n)]]

\* The output file: nothing, or the table df.to_parquet wrote.
NoOutput == [written |-> FALSE, table |-> NoDataFrame]

to_parquet(df) == [written |-> TRUE, table |-> df]

\* The loop body that skips a column it cannot read.
read_columns_step_skip(columns, col_name, file) ==
    LET step(r) ==
            IF r.ok
            THEN [exit |-> FALSE,
                  columns |-> DictSet(columns, col_name, r.series), stderr |-> <<>>]
            ELSE [exit |-> FALSE, columns |-> columns,
                  stderr |-> << <<"ERROR reading ", col_name, ": ">> \o r.error >>]
    IN  step(read_column(file, col_name))

\* One iteration of convert_to_parquet's loop over files.items(): the column is
\* read into columns, or the error is printed and sys.exit(1) ends the process.
read_columns_step(columns, col_name, file) ==
    LET step(r) ==
            IF r.ok
            THEN [exit |-> FALSE,
                  columns |-> DictSet(columns, col_name, r.series), stderr |-> <<>>]
            ELSE [exit |-> TRUE, columns |-> columns,
                  stderr |-> << <<"ERROR reading ", col_name, ": ">> \o r.error >>]
    IN  step(read_column(file, col_name))

\* The lines convert_to_parquet prints when the lengths differ.
length_warning(columns) ==
    IF Cardinality({Len(columns[i].value.values) : i \in 1..Len(columns)}) > 1
    THEN << <<"WARNING: Columns have different lengths:">> >>
         \o [i \in 1..Len(columns) |->
                <<"  ", columns[i].key, ": ", Len(columns[i].value.values)>>]
         \o << <<"Creating DataFrame with mismatched lengths (NaN will be filled).">> >>
    ELSE <<>>

\* convert_single_file: [ok, error, df]
convert_single_file(file, col_name) ==
    LET frame(r) ==
            IF ~r.ok THEN [ok |-> FALSE, error |-> r.error, df |-> NoDataFrame]
            ELSE [ok |-> TRUE, error |-> <<>>,
                  df |-> DataFrame(<< [key |-> col_name, value |-> r.series] >>)]
    IN  frame(read_column(file, col_name))

(***************************************************************************)
(* The idle values of each tool's variables.                               *)
(***************************************************************************)
IdleEpoch ==
    /\ eTicks = <<>>
    /\ eSeconds = <<>>
    /\ eDone = {"ticks", "seconds"}
    /\ eTicksOut = <<>>
    /\ eSecondsOut = <<>>

IdleReader ==
    /\ rFile = MissingFile("")
    /\ rCopy = FALSE
    /\ rAsDatetime = FALSE
    /\ rPc = "idle"
    /\ rResult = [ok |-> FALSE, error |-> <<>>, array |-> NoArray]

IdleScan ==
    /\ sPc = "idle"
    /\ sWalked = <<>>
    /\ sAcc = EmptyAcc
    /\ sStderr = <<>>
    /\ sResult = scan_return(EmptyAcc)

IdleMerge ==
    /\ mCall = [entry |-> "none"]
    /\ mPc = "idle"
    /\ mFiles = <<>>
    /\ mColumns = <<>>
    /\ mAttempts = 0
    /\ mDf = NoDataFrame
    /\ mOutput = NoOutput
    /\ mStderr = <<>>
    /\ mRaised = <<>>
    /\ mExit = -1

(***************************************************************************)
(* SpecReader: read_listmmf applied to one file.                           *)
(***************************************************************************)
\* Header counts run from -2 to MaxCount, payloads hold up to MaxPayload bytes.
MaxCount == 2

MaxPayload == 17

\* Payload byte k of the files read here: distinct bytes, some with the top bit set.
PayloadByte(k) == (k * 37 + 129) % 256

Payload(len) == [k \in 1..len |-> PayloadByte(k)]

DataTypeChoices == (-1..22) \cup {256, Int32Min, Int32Max}

\* Small counts, and counts whose product with an item size leaves int64:
\* 2^61, 2^61 + 1, 2^62, 2^63 - 1, -2^63.
CountChoices ==
    {FromInt32(n) : n \in (-2)..MaxCount}
    \cup {<<0, 0, 0, 8192>>, <<1, 0, 0, 8192>>, <<0, 0, 0, 16384>>, Int64Max, Int64Min}

ReaderFiles ==
    {MissingFile("data.bt")}
    \cup {ShortFile("data.bt", SubSeq(Payload(HEADER_SIZE), 1, k)) : k \in {0, HEADER_SIZE - 1}}
    \cup {MkFile("data.bt", 1, dt, c, Payload(len)) :
            dt \in DataTypeChoices, c \in CountChoices, len \in 0..MaxPayload}

InitReader ==
    /\ rFile \in ReaderFiles
    /\ rCopy \in BOOLEAN
    /\ rAsDatetime = FALSE
    /\ rPc = "start"
    /\ rResult = [ok |-> FALSE, error |-> <<>>, array |-> NoArray]
    /\ IdleEpoch
    /\ IdleScan
    /\ IdleMerge

ReadListMmf ==
    /\ rPc = "start"
    /\ rResult' = read_listmmf(rFile, rCopy)
    /\ rPc' = "done"
    /\ UNCHANGED <<rFile, rCopy, rAsDatetime>>
    /\ UNCHANGED <<evars, svars, mvars>>

NextReader == ReadListMmf

SpecReader == InitReader /\ [][NextReader]_vars

(***************************************************************************)
(* SpecReadMmf: read_mmf applied to one file, with and without conversion  *)
(* requested.                                                              *)
(***************************************************************************)
InitReadMmf ==
    /\ rFile \in ReaderFiles
    /\ rCopy = FALSE
    /\ rAsDatetime \in BOOLEAN
    /\ rPc = "start"
    /\ rResult = [ok |-> FALSE, error |-> <<>>, array |-> NoArray]
    /\ IdleEpoch
    /\ IdleScan
    /\ IdleMerge

ReadMmf ==
    /\ rPc = "start"
    /\ rResult' = read_mmf(rFile, rAsDatetime)
    /\ rPc' = "done"
    /\ UNCHANGED <<rFile, rCopy, rAsDatetime>>
    /\ UNCHANGED <<evars, svars, mvars>>

NextReadMmf == ReadMmf

SpecReadMmf == InitReadMmf /\ [][NextReadMmf]_vars

(***************************************************************************)
(* SpecEpoch: a converter applied to an input array.                       *)
(***************************************************************************)
\* Inputs lie within MaxDelta ticks (seconds) of the marks below.
MaxDelta == 2

\* The largest n with n * 100 <= 2^63 - 1.
NsLimit == DivSmall(Int64Max, 100)[1]

\* ticks of DateTime.MaxValue, 9999-12-31T23:59:59.9999999
DateTimeMaxTicks == FromDec(<<3,1,5,5,3,7,8,9,7,5,9,9,9,9,9,9,9,9,9>>)

TicksPerSecond == FromDec(<<1,0,0,0,0,0,0,0>>)

Deltas == (-MaxDelta)..MaxDelta

Tick(d) == Add64(DOTNET_TO_UNIX_TICKS, FromInt32(d))

TickChoices ==
    {Tick(d) : d \in Deltas}
    \cup {Add64(DOTNET_TO_UNIX_TICKS, Mul64(TicksPerSecond, k)) : k \in 1..MaxDelta}
    \cup {Add64(Add64(DOTNET_TO_UNIX_TICKS, NsLimit), FromInt32(d)) : d \in {-1, 0, 1}}
    \cup {Add64(Sub64(DOTNET_TO_UNIX_TICKS, NsLimit), FromInt32(d)) : d \in {-1, 0, 1}}
    \cup {Zero64, DateTimeMaxTicks, Int64Min, Int64Max}

SecondChoices ==
    Deltas \cup {Int32Min + d : d \in 0..MaxDelta} \cup {Int32Max - d : d \in 0..MaxDelta}

InitEpoch ==
    /\ eTicks \in TickChoices \X TickChoices
    /\ eSeconds \in {<<s>> : s \in SecondChoices}
    /\ eDone = {}
    /\ eTicksOut = <<>>
    /\ eSecondsOut = <<>>
    /\ IdleReader
    /\ IdleScan
    /\ IdleMerge

ConvertDatetime ==
    /\ "ticks" \notin eDone
    /\ eTicksOut' = convert_datetime(eTicks)
    /\ eDone' = eDone \cup {"ticks"}
    /\ UNCHANGED <<eTicks, eSeconds, eSecondsOut>>
    /\ UNCHANGED <<rvars, svars, mvars>>

ConvertUnixSeconds ==
    /\ "seconds" \notin eDone
    /\ eSecondsOut' = convert_unixseconds(eSeconds)
    /\ eDone' = eDone \cup {"seconds"}
    /\ UNCHANGED <<eTicks, eSeconds, eTicksOut>>
    /\ UNCHANGED <<rvars, svars, mvars>>

NextEpoch == ConvertDatetime \/ ConvertUnixSeconds

SpecEpoch == InitEpoch /\ [][NextEpoch]_vars

(***************************************************************************)
(* SpecScan: scan_dir over a corpus, one directory entry per step.  The    *)
(* walk yields up to MaxFiles entries, in any order.                       *)
(***************************************************************************)
MaxFiles == 2

\* Type codes scanned with every count of ScanCounts, and odd-byte codes scanned
\* with a count of 1000 only.
ScanTypes == {-1, 0, 1, 6, 12, 22, 14, 15}

ScanOddTypes == {16, 17, 19, 20, 21}

ScanCounts == {-1, 0, 1000}

Entry(name, readable, file) == [name |-> name, readable |-> readable, file |-> file]

\* The payload length of a scanned file; the scan never looks at it.
ScanPayloadLen(c) == IF c < 0 THEN 3 ELSE IF c = 0 THEN 0 ELSE 5

ScanEntries ==
    {Entry("a.bt", TRUE,
           MkFile("a.bt", 1, dt, FromInt32(c), Payload(ScanPayloadLen(c)))) :
        dt \in ScanTypes, c \in ScanCounts}
    \cup {Entry("a.bt", TRUE, MkFile("a.bt", 1, dt, FromInt32(1000), Payload(2))) :
            dt \in ScanOddTypes}
    \cup {Entry("B.BT", TRUE, MkFile("B.BT", 1, 18, FromInt32(1000), Payload(1))),
          Entry("c.mmf", TRUE, MkFile("c.mmf", 1, 14, FromInt32(1000), Payload(2))),
          Entry("a.bt", TRUE, ShortFile("a.bt", <<>>)),
          Entry("a.bt", TRUE, ShortFile("a.bt", Payload(LISTMMF_HEADER_SIZE - 1))),
          Entry("a.bt", FALSE, MkFile("a.bt", 1, 15, FromInt32(1000), Payload(4)))}

InitScan ==
    /\ sPc = "walking"
    /\ sWalked = <<>>
    /\ sAcc = EmptyAcc
    /\ sStderr = <<>>
    /\ sResult = scan_return(EmptyAcc)
    /\ IdleEpoch
    /\ IdleReader
    /\ IdleMerge

\* os.walk yields one more entry and the loop body runs on it.
ScanFile ==
    /\ sPc = "walking"
    /\ Len(sWalked) < MaxFiles
    /\ \E entry \in ScanEntries :
        LET st == scan_step(sAcc, entry) IN
        /\ sWalked' = Append(sWalked, entry)
        /\ sAcc' = st.acc
        /\ sStderr' = IF st.log = <<>> THEN sStderr ELSE Append(sStderr, st.log)
        /\ sPc' = IF st.raised THEN "aborted" ELSE "walking"
    /\ UNCHANGED sResult
    /\ UNCHANGED <<evars, rvars, mvars>>

\* The walk is exhausted and scan_dir returns.
ScanReturn ==
    /\ sPc = "walking"
    /\ sResult' = scan_return(sAcc)
    /\ sPc' = "done"
    /\ UNCHANGED <<sWalked, sAcc, sStderr>>
    /\ UNCHANGED <<evars, rvars, mvars>>

NextScan == ScanFile \/ ScanReturn

SpecScan == InitScan /\ [][NextScan]_vars

(***************************************************************************)
(* SpecMerge: mmf_to_parquet.  A run is main() on a command line, or a     *)
(* call of convert_to_parquet on a dict of files; the loop over the files  *)
(* reads one column per step.  The input directory lists up to MaxCols     *)
(* entries, in any order.                                                  *)
(***************************************************************************)
MaxCols == 2

\* The column file of each kind at the given path.
MergeFile(path, kind) ==
    CASE kind = "i32x2"   -> MkFile(path, 1, 6, FromInt32(2), PackInt32(5) \o PackInt32(-1))
      [] kind = "i32x0"   -> MkFile(path, 1, 6, Zero64, <<>>)
      [] kind = "u8x1"    -> MkFile(path, 1, 3, FromInt32(1), <<200>>)
      [] kind = "i64big"  -> MkFile(path, 1, 8, FromInt32(1), PackInt64(<<1, 0, 0, 32>>))
      [] kind = "f64x3"   -> MkFile(path, 1, 11, FromInt32(3),
                                    <<0, 0, 0, 0, 0, 0, 240, 63>> \o <<0, 0, 0, 0, 0, 0, 0, 64>>
                                        \o <<0, 0, 0, 0, 0, 0, 8, 64>>)
      [] kind = "ticks2"  -> MkFile(path, 1, 12, FromInt32(2),
                                    PackInt64(DOTNET_TO_UNIX_TICKS)
                                        \o PackInt64(Add64(DOTNET_TO_UNIX_TICKS, TicksPerSecond)))
      [] kind = "secs1"   -> MkFile(path, 1, 13, FromInt32(1), PackInt32(1))
      [] kind = "odd"     -> MkFile(path, 1, 14, FromInt32(1), <<1, 2, 3>>)
      [] kind = "unknown" -> MkFile(path, 1, 22, FromInt32(1), <<1, 2, 3, 4, 5, 6, 7, 8>>)
      [] kind = "trunc"   -> MkFile(path, 1, 6, FromInt32(3), PackInt32(5))
      [] kind = "short"   -> ShortFile(path, [i \in 1..15 |-> 0])
      [] kind = "missing" -> MissingFile(path)

DirPath == "data"

DirEntry(stem, ext, kind) ==
    [stem |-> stem, ext |-> ext, file |-> MergeFile(DirPath \o "/" \o stem \o ext, kind)]

MergeEntries ==
    {DirEntry("Timestamp", ".bt", k) : k \in {"ticks2", "secs1", "i64big", "short", "missing"}}
    \cup {DirEntry("TIME", ".bt", "ticks2")}
    \cup {DirEntry("Close", ".bt", k) :
              k \in {"f64x3", "i32x2", "i64big", "ticks2", "odd", "unknown", "trunc"}}
    \cup {DirEntry("Close", ".mmf", k) : k \in {"i32x2", "short"}}
    \cup {DirEntry("Volume", ".bt", k) : k \in {"u8x1", "i32x0"}}

\* The listings of a directory: no two entries share a file name.
Directories ==
    UNION {{d \in [1..n -> MergeEntries] :
               \A i, j \in 1..n :
                   i # j => <<d[i].stem, d[i].ext>> # <<d[j].stem, d[j].ext>>}
           : n \in 0..MaxCols}

\* The --columns arguments tried; <<>> is the option left out.
ColumnArgs == {<<>>, <<"Timestamp", "Close">>, <<"Close", "Open">>}

\* The runs over one directory: main on the directory, main on its first entry as
\* a single input path, and convert_to_parquet on a dict of its files.
Calls(d) ==
    {[entry |-> "main", output |-> TRUE, directory |-> d, single |-> FALSE,
      columns |-> c, files |-> <<>>] : c \in ColumnArgs}
    \cup {[entry |-> "main", output |-> FALSE, directory |-> d, single |-> FALSE,
           columns |-> <<>>, files |-> <<>>]}
    \cup (IF d = <<>> THEN {}
          ELSE {[entry |-> "main", output |-> TRUE, directory |-> d, single |-> TRUE,
                 columns |-> c, files |-> <<>>] : c \in {<<>>, <<"Timestamp", "Close">>}})
    \cup (IF \E i, j \in 1..Len(d) : i # j /\ d[i].stem = d[j].stem THEN {}
          ELSE {[entry |-> "convert_to_parquet", output |-> TRUE, directory |-> d,
                 single |-> FALSE, columns |-> <<>>,
                 files |-> [i \in 1..Len(d) |-> [key |-> d[i].stem, value |-> d[i].file]]]})

InitMerge ==
    /\ \E d \in Directories : mCall \in Calls(d)
    /\ mPc = "start"
    /\ mFiles = <<>>
    /\ mColumns = <<>>
    /\ mAttempts = 0
    /\ mDf = NoDataFrame
    /\ mOutput = NoOutput
    /\ mStderr = <<>>
    /\ mRaised = <<>>
    /\ mExit = -1
    /\ IdleEpoch
    /\ IdleReader
    /\ IdleScan

\* main(), up to the call of convert_to_parquet: the whole run for a single input
\* file, for a missing output argument, for an input path that does not exist and
\* for a directory in which no column file is found.
Main ==
    /\ mPc = "start"
    /\ mCall.entry = "main"
    /\ LET warn == IF mCall.columns # <<>>
                   THEN << <<"WARNING: --columns ignored for single file input">> >>
                   ELSE <<>>
           exit(code, lines) ==
               /\ mPc' = "exit"
               /\ mExit' = code
               /\ mStderr' = lines
               /\ UNCHANGED <<mFiles, mDf, mOutput>>
           single(one) ==
               IF one.ok
               THEN /\ mPc' = "exit"
                    /\ mExit' = 0
                    /\ mStderr' = warn
                    /\ mDf' = one.df
                    /\ mOutput' = to_parquet(one.df)
                    /\ UNCHANGED mFiles
               ELSE exit(1, warn \o << <<"ERROR: ">> \o one.error >>)
           dir(found) ==
               IF found.files = <<>>
               THEN exit(1, found.log
                            \o << <<"ERROR: No .mmf or .bt files found in ", DirPath>> >>
                            \o (IF mCall.columns # <<>>
                                THEN << <<"Searched for: ">> \o mCall.columns >>
                                ELSE <<>>))
               ELSE /\ mPc' = "reading"
                    /\ mFiles' = found.files
                    /\ mStderr' = found.log
                    /\ UNCHANGED <<mExit, mDf, mOutput>>
       IN  IF ~mCall.output
           THEN exit(1, << <<"ERROR: Output file path is required">> >>)
           ELSE IF mCall.single /\ mCall.directory[1].file.exists
           THEN single(convert_single_file(mCall.directory[1].file,
                                           mCall.directory[1].stem))
           ELSE IF mCall.single
           THEN exit(1, << <<"ERROR: Input path does not exist: ",
                             mCall.directory[1].file.path>> >>)
           ELSE dir(find_mmf_files(DirPath, mCall.directory, mCall.columns))
    /\ UNCHANGED <<mCall, mColumns, mAttempts, mRaised>>
    /\ UNCHANGED <<evars, rvars, svars>>

\* convert_to_parquet called on a dict of files: it raises ValueError on an empty
\* dict before anything else.
CallConvert ==
    /\ mPc = "start"
    /\ mCall.entry = "convert_to_parquet"
    /\ IF mCall.files = <<>>
       THEN /\ mPc' = "raised"
            /\ mRaised' = <<"No files to convert">>
            /\ UNCHANGED mFiles
       ELSE /\ mPc' = "reading"
            /\ mFiles' = mCall.files
            /\ UNCHANGED mRaised
    /\ UNCHANGED <<mCall, mColumns, mAttempts, mDf, mOutput, mStderr, mExit>>
    /\ UNCHANGED <<evars, rvars, svars>>

\* One iteration of the loop over files.items().
ReadColumn ==
    /\ mPc = "reading"
    /\ mAttempts < Len(mFiles)
    /\ LET take(step) ==
               /\ mColumns' = step.columns
               /\ mAttempts' = mAttempts + 1
               /\ mStderr' = mStderr \o step.stderr
               /\ IF step.exit
                  THEN mPc' = "exit" /\ mExit' = 1
                  ELSE UNCHANGED <<mPc, mExit>>
       IN  take(read_columns_step(mColumns, mFiles[mAttempts + 1].key,
                                  mFiles[mAttempts + 1].value))
    /\ UNCHANGED <<mCall, mFiles, mDf, mOutput, mRaised>>
    /\ UNCHANGED <<evars, rvars, svars>>

\* After the loop: the length warning, the DataFrame, the Parquet file; main then
\* returns 0.
WriteParquet ==
    /\ mPc = "reading"
    /\ mAttempts = Len(mFiles)
    /\ mStderr' = mStderr \o length_warning(mColumns)
    /\ LET write(df) == mDf' = df /\ mOutput' = to_parquet(df)
       IN  write(DataFrame(mColumns))
    /\ IF mCall.entry = "main"
       THEN mPc' = "exit" /\ mExit' = 0
       ELSE mPc' = "returned" /\ UNCHANGED mExit
    /\ UNCHANGED <<mCall, mFiles, mColumns, mAttempts, mRaised>>
    /\ UNCHANGED <<evars, rvars, svars>>

NextMerge == Main \/ CallConvert \/ ReadColumn \/ WriteParquet

SpecMerge == InitMerge /\ [][NextMerge]_vars

(***************************************************************************)
(* Claims about the converters.                                            *)
(***************************************************************************)
RECURSIVE NatDigits(_)
NatDigits(n) == IF n = 0 THEN <<>> ELSE Append(NatDigits(n \div 10), n % 10)

\* The signed decimal reading of a small integer.
IntDec(n) == [neg |-> n < 0, digits |-> NatDigits(IF n < 0 THEN -n ELSE n)]

RECURSIVE Zeros(_)
Zeros(k) == IF k = 0 THEN <<>> ELSE <<0>> \o Zeros(k - 1)

\* The decimal reading multiplied by 10^k: k zeros appended (zero stays zero).
DecTimesPow10(r, k) ==
    IF r.digits = <<>> THEN r ELSE [neg |-> r.neg, digits |-> r.digits \o Zeros(k)]

\* 621355968000000000 and 621355968000000000 + 10000000, written out.
EpochTicks == FromDec(<<6,2,1,3,5,5,9,6,8,0,0,0,0,0,0,0,0,0>>)

EpochPlusOneSecondTicks == FromDec(<<6,2,1,3,5,5,9,6,8,0,1,0,0,0,0,0,0,0>>)

\* C4: convert_datetime maps ticks t to (t - 621355968000000000) * 100 ns since the
\* Unix epoch wherever that product is an int64: 621355968000000000 gives 0 ns,
\* 621355968000000000 + 10000000 gives 1000000000 ns, and every t within MaxDelta of
\* the epoch mark, or at the largest representable distance from it, gives the decimal
\* of the distance with two zeros appended; convert_unixseconds maps int32 seconds s
\* to s * 1000000000 ns (the decimal of s with nine zeros appended), and 0 to the
\* epoch.
C4_EpochExact ==
    /\ "ticks" \in eDone =>
        /\ Len(eTicksOut) = Len(eTicks)
        /\ \A i \in 1..Len(eTicks) :
            /\ \A d \in Deltas :
                  eTicks[i] = Tick(d) =>
                      ToDec(eTicksOut[i]) = DecTimesPow10(IntDec(d), 2)
            /\ eTicks[i] = EpochTicks =>
                  eTicksOut[i] = Zero64
            /\ eTicks[i] = EpochPlusOneSecondTicks =>
                  ToDec(eTicksOut[i]) =
                      [neg |-> FALSE, digits |-> <<1,0,0,0,0,0,0,0,0,0>>]
            /\ eTicks[i] = Add64(DOTNET_TO_UNIX_TICKS, NsLimit) =>
                  ToDec(eTicksOut[i]) = DecTimesPow10(ToDec(NsLimit), 2)
            /\ eTicks[i] = Sub64(DOTNET_TO_UNIX_TICKS, NsLimit) =>
                  ToDec(eTicksOut[i]) = DecTimesPow10(ToDec(Neg64(NsLimit)), 2)
    /\ "seconds" \in eDone =>
        /\ Len(eSecondsOut) = Len(eSeconds)
        /\ \A i \in 1..Len(eSeconds) :
            /\ ToDec(eSecondsOut[i]) = DecTimesPow10(ToDec(FromInt32(eSeconds[i])), 9)
            /\ eSeconds[i] = 0 => eSecondsOut[i] = Zero64

\* The epoch mark and one second after it have been converted, and so has the
\* largest int32 of seconds.
C4_Witness ==
    /\ eDone = {"ticks", "seconds"}
    /\ eTicks[1] = EpochTicks
    /\ eTicks[2] = EpochPlusOneSecondTicks
    /\ eTicksOut[1] = Zero64
    /\ ToDec(eTicksOut[2]).digits = <<1,0,0,0,0,0,0,0,0,0>>
    /\ eSeconds[1] = Int32Max
    /\ ToDec(eSecondsOut[1]).digits = <<2,1,4,7,4,8,3,6,4,7,0,0,0,0,0,0,0,0,0>>

\* C5: for every pair of int64 ticks a <= b, convert_datetime(a) <= convert_datetime(b)
\* (the 64-bit computation (ticks - 621355968000000000) * 100 never wraps).
C5_Monotonic ==
    "ticks" \in eDone =>
        (Leq64(eTicks[1], eTicks[2]) => Leq64(eTicksOut[1], eTicksOut[2]))

(***************************************************************************)
(* Claims about read_listmmf.                                              *)
(***************************************************************************)
\* The error kind a caller tells from a raised message.
ErrorKind(r) ==
    IF r.ok THEN "none"
    ELSE CASE r.error[1] = "File not found: " -> "NotFound"
           [] r.error[1] = "File too small (< 16 bytes): " -> "TooSmall"
           [] r.error[1] = "Odd-byte type " -> "OddByteTypeUnsupported"
           [] r.error[1] = "Cannot read AnyStruct files (DataType=0)" ->
                  "StructTypeUnsupported"
           [] r.error[1] = "BitArray files require special handling (not yet implemented). Use the C# library or implement bit unpacking." ->
                  "BitArrayUnsupported"
           [] r.error[1] = "Unsupported DataType: " -> "UnknownDataType"
           [] r.error[1] = "Failed to read data from " -> "IOFailure"
           [] OTHER -> "other"

\* The file exists and holds a whole header.
HasHeader(file) == file.exists /\ Len(file.bytes) >= 16

OddByteNames ==
    14 :> "Int24AsInt64" @@ 15 :> "Int40AsInt64" @@ 16 :> "Int48AsInt64" @@
    17 :> "Int56AsInt64" @@ 18 :> "UInt24AsInt64" @@ 19 :> "UInt40AsInt64" @@
    20 :> "UInt48AsInt64" @@ 21 :> "UInt56AsInt64"

\* The storage width of a decodable type code.
WidthOf(dt) ==
    CASE dt \in {2, 3} -> 1
      [] dt \in {4, 5} -> 2
      [] dt \in {6, 7, 10, 13} -> 4
      [] dt \in {8, 9, 11, 12} -> 8

\* C1: for every existing file of at least 16 bytes whose header declares an odd-byte
\* code 14..21, read_listmmf (mapped or copy, any count, any payload) fails with the
\* odd-byte error, its message includes the type's name, and no data is returned.
C1_OddByteRejected ==
    (rPc = "done" /\ HasHeader(rFile) /\ rFile.meta.datatype \in 14..21) =>
        /\ ErrorKind(rResult) = "OddByteTypeUnsupported"
        /\ \E i \in 1..Len(rResult.error) :
               rResult.error[i] = OddByteNames[rFile.meta.datatype]
        /\ rResult.array = NoArray

\* A UInt56AsInt64 file with a payload has been opened in copy mode and refused.
C1_Witness ==
    /\ rPc = "done"
    /\ HasHeader(rFile)
    /\ rFile.meta.datatype = 21
    /\ rFile.meta.count = FromInt32(2)
    /\ Len(rFile.bytes) > 16
    /\ rCopy
    /\ ~rResult.ok

\* C2: for every int32 type code c in the header of an existing file of at least 16
\* bytes, read_listmmf goes on to decode exactly when c is in 2..13; it fails with
\* the bit-array error for c = 1, the struct error for c = 0, and the unknown-type
\* error (naming Unknown(c)) for c outside 0..21; none of these is the odd-byte
\* failure and none returns data.
C2_TypeDispatch ==
    (rPc = "done" /\ HasHeader(rFile)) =>
        LET c == rFile.meta.datatype
            k == ErrorKind(rResult)
        IN  /\ (k \in {"none", "IOFailure"}) <=> (c \in 2..13)
            /\ c = 1 => k = "BitArrayUnsupported"
            /\ c = 0 => k = "StructTypeUnsupported"
            /\ c \notin 0..21 =>
                   /\ k = "UnknownDataType"
                   /\ rResult.error[2] = "Unknown(" \o ToString(c) \o ")"
            /\ c \notin 2..13 => ~rResult.ok /\ rResult.array = NoArray
            /\ c \notin 14..21 => k # "OddByteTypeUnsupported"

\* A file with a negative type code has been refused as unknown.
C2_Witness ==
    /\ rPc = "done"
    /\ HasHeader(rFile)
    /\ rFile.meta.datatype = -1
    /\ ErrorKind(rResult) = "UnknownDataType"

\* The bytes 16 + n * w fit in a file of flen bytes (n a non-negative count).
Fits(n, w, flen) == IsSmall64(n) /\ 16 + n[1] * w <= flen

\* C3: for a file with a decodable type of width w and header count n, a successful
\* read_listmmf returns exactly n elements, element i being the bytes
\* [16 + i*w, 16 + (i+1)*w) of the file in order; whenever n < 0 or the file is
\* smaller than 16 + n*w the read fails with a read error and returns no element.
C3_ElementsWithinFile ==
    (rPc = "done" /\ HasHeader(rFile) /\ rFile.meta.datatype \in 2..13) =>
        LET w    == WidthOf(rFile.meta.datatype)
            n    == rFile.meta.count
            flen == Len(rFile.bytes)
        IN  /\ rResult.ok =>
                /\ ~IsNeg64(n)
                /\ Fits(n, w, flen)
                /\ Len(rResult.array.elems) = n[1]
                /\ \A i \in 0..(n[1] - 1) :
                       rResult.array.elems[i + 1] =
                           [j \in 1..w |-> rFile.bytes[16 + i * w + j]]
            /\ (IsNeg64(n) \/ ~Fits(n, w, flen)) =>
                /\ ErrorKind(rResult) = "IOFailure"
                /\ rResult.array = NoArray

\* Two int64 elements have been read from a file that holds them and a byte more.
C3_Witness ==
    /\ rPc = "done"
    /\ rFile.exists
    /\ rFile.meta.kind = "header"
    /\ rFile.meta.datatype = 8
    /\ rFile.meta.count = FromInt32(2)
    /\ Len(rFile.bytes) = 16 + 2 * 8 + 1
    /\ rResult.ok
    /\ Len(rResult.array.elems) = 2
    /\ rResult.array.elems[2] = SubSeq(rFile.bytes, 25, 32)

(***************************************************************************)
(* Claims about scan_dir.                                                  *)
(***************************************************************************)
\* A file the scan must skip: shorter than 16 bytes, or its header cannot be read.
IsBad(entry) == Len(entry.file.bytes) < 16 \/ ~entry.readable

\* The entries with a .bt name.
IsBt(entry) == entry.name \in {"a.bt", "B.BT"}

\* The locals of scan_dir after its loop has run over the entries, in order.
RECURSIVE ScanAll(_)
ScanAll(entries) ==
    IF entries = <<>> THEN EmptyAcc
    ELSE scan_step(ScanAll(SubSeq(entries, 1, Len(entries) - 1)),
                   entries[Len(entries)]).acc

GoodOnly(entries) == SelectSeq(entries, LAMBDA e : ~IsBad(e))

\* C6: a scan never aborts because of a bad file: after any walk over files of which
\* any number are shorter than 16 bytes or unreadable, scan_dir has not raised, and
\* its counters (and the dict it returns) equal those of the scan of the same entries
\* with the bad files removed.
C6_BadFilesSkipped ==
    /\ sPc # "aborted"
    /\ scan_return(sAcc) = scan_return(ScanAll(GoodOnly(sWalked)))
    /\ sPc = "done" => sResult = scan_return(ScanAll(GoodOnly(sWalked)))

\* A scan over a decodable file and then a truncated file has returned, with one
\* warning printed and one file counted.
C6_Witness ==
    /\ sPc = "done"
    /\ Len(sWalked) = 2
    /\ ~IsBad(sWalked[1])
    /\ IsBt(sWalked[1])
    /\ Len(sWalked[2].file.bytes) = 15
    /\ Len(sStderr) = 1
    /\ sResult.total_files = 1
    /\ sResult.total_bytes = Len(sWalked[1].file.bytes)

\* The sum of a sequence of integers.
RECURSIVE SumSeq(_)
SumSeq(seq) == IF seq = <<>> THEN 0 ELSE Head(seq) + SumSeq(Tail(seq))

\* The entries whose header the scan decodes, and what their writer stored in it.
Decoded(entries) == SelectSeq(entries, LAMBDA e : IsBt(e) /\ ~IsBad(e))

TypeOf(entry) == entry.file.meta.datatype

CountOf(entry) ==
    CHOOSE c \in ScanCounts \cup {1000} : FromInt32(c) = entry.file.meta.count

AllCodes == (-1)..22

\* C7: after any sequence of decoded headers, for every type code dt (inside or
\* outside 0..21) perType[dt].files is the number of decoded files with that code,
\* .items the sum of max(0, count) over them (a negative count adds 0, the file is
\* still counted) and .bytes the sum of their sizes on disk.
C7_PerTypeCounters ==
    \A dt \in AllCodes :
        LET mine == SelectSeq(Decoded(sWalked), LAMBDA e : TypeOf(e) = dt) IN
        /\ CounterGet(sAcc.by_dtype_files, dt) = Len(mine)
        /\ CounterGet(sAcc.by_dtype_items, dt) =
               SumSeq([i \in 1..Len(mine) |->
                          IF CountOf(mine[i]) > 0 THEN CountOf(mine[i]) ELSE 0])
        /\ CounterGet(sAcc.by_dtype_bytes, dt) =
               SumSeq([i \in 1..Len(mine) |-> Len(mine[i].file.bytes)])
        /\ sPc = "done" =>
               /\ CounterGet(sResult.by_dtype_files, dt) = Len(mine)
               /\ CounterGet(sResult.by_dtype_items, dt) =
                      CounterGet(sAcc.by_dtype_items, dt)
               /\ CounterGet(sResult.by_dtype_bytes, dt) =
                      CounterGet(sAcc.by_dtype_bytes, dt)

\* Two Int32 files, one with count -1 and one with count 1000, have been counted.
C7_Witness ==
    /\ sPc = "done"
    /\ Len(sWalked) = 2
    /\ \A i \in 1..2 : IsBt(sWalked[i]) /\ ~IsBad(sWalked[i])
    /\ TypeOf(sWalked[1]) = 6 /\ CountOf(sWalked[1]) = -1
    /\ TypeOf(sWalked[2]) = 6 /\ CountOf(sWalked[2]) = 1000
    /\ sResult.by_dtype_files[6] = 2
    /\ sResult.by_dtype_items[6] = 1000
    /\ sResult.by_dtype_bytes[6] = 19 + 21

\* The widths the savings estimate compares: actual and fallback.
OddWidth(dt) ==
    CASE dt \in {14, 18} -> 3 [] dt \in {15, 19} -> 5
      [] dt \in {16, 20} -> 6 [] dt \in {17, 21} -> 7

FallbackWidth(dt) == IF dt \in {14, 18} THEN 4 ELSE 8

SavedOf(entry) ==
    LET saved == (FallbackWidth(TypeOf(entry)) - OddWidth(TypeOf(entry))) * CountOf(entry)
    IN  IF saved > 0 THEN saved ELSE 0

SavedSum(entries) == SumSeq([i \in 1..Len(entries) |-> SavedOf(entries[i])])

OddDecoded(entries) == SelectSeq(Decoded(entries), LAMBDA e : TypeOf(e) \in 14..21)

C8_SavingsSum ==
    /\ sAcc.odd_saved_bytes_total = SavedSum(OddDecoded(sWalked))
    /\ \A dt \in AllCodes :
           CounterGet(sAcc.odd_saved_bytes_by_dtype, dt) =
               SavedSum(SelectSeq(OddDecoded(sWalked), LAMBDA e : TypeOf(e) = dt))
    /\ \A i \in 1..Len(sWalked) :
           LET e == sWalked[i] IN
           (Len(OddDecoded(sWalked)) = 1 /\ OddDecoded(sWalked)[1] = e) =>
               /\ CountOf(e) <= 0 => sAcc.odd_saved_bytes_total = 0
               /\ (TypeOf(e) = 14 /\ CountOf(e) = 1000) =>
                      sAcc.odd_saved_bytes_total = 1000
               /\ (TypeOf(e) = 15 /\ CountOf(e) = 1000) =>
                      sAcc.odd_saved_bytes_total = 3000
    /\ sPc = "done" =>
           /\ sResult.odd_saved_bytes_total = sAcc.odd_saved_bytes_total
           /\ sResult.odd_saved_bytes_by_dtype = sAcc.odd_saved_bytes_by_dtype

C8_SavingsStep ==
    /\ sAcc'.odd_saved_bytes_total >= sAcc.odd_saved_bytes_total
    /\ \A dt \in AllCodes :
           CounterGet(sAcc'.odd_saved_bytes_by_dtype, dt) >=
               CounterGet(sAcc.odd_saved_bytes_by_dtype, dt)

\* C8: for every decoded odd-byte header scan_dir adds
\* saved = (fallbackWidth - actualWidth) * count, fallback 4 for codes 14 and 18 and
\* 8 for 15, 16, 17, 19, 20, 21, to the total and per-type savings only when
\* saved > 0; a count <= 0 adds nothing and the savings never decrease; type 14 with
\* count 1000 adds 1000 bytes and type 15 with count 1000 adds 3000.
C8_Savings == [](C8_SavingsSum) /\ [][C8_SavingsStep]_vars

\* A type-14 file and a type-15 file of 1000 items have been scanned: 4000 bytes
\* saved.
C8_Witness ==
    /\ sPc = "done"
    /\ Len(sWalked) = 2
    /\ \A i \in 1..2 : IsBt(sWalked[i]) /\ ~IsBad(sWalked[i])
    /\ TypeOf(sWalked[1]) = 14 /\ CountOf(sWalked[1]) = 1000
    /\ TypeOf(sWalked[2]) = 15 /\ CountOf(sWalked[2]) = 1000
    /\ sResult.odd_saved_bytes_total = 4000
    /\ sResult.odd_saved_bytes_by_dtype[14] = 1000
    /\ sResult.odd_saved_bytes_by_dtype[15] = 3000

\* The sum of a Counter's values, over every type code that occurs.
CounterSum(c) == SumSeq([i \in 1..Cardinality(AllCodes) |-> CounterGet(c, i - 2)])

\* scan_dir's totals agree with its per-type Counters.
Consistent(acc) ==
    /\ DOMAIN acc.by_dtype_files \subseteq AllCodes
    /\ DOMAIN acc.by_dtype_bytes \subseteq AllCodes
    /\ DOMAIN acc.odd_saved_bytes_by_dtype \subseteq AllCodes
    /\ acc.total_files = CounterSum(acc.by_dtype_files)
    /\ acc.total_bytes = CounterSum(acc.by_dtype_bytes)
    /\ acc.odd_files = SumSeq([i \in 1..8 |-> CounterGet(acc.by_dtype_files, 13 + i)])
    /\ acc.odd_saved_bytes_total = CounterSum(acc.odd_saved_bytes_by_dtype)

Orders(n) == {p \in [1..n -> 1..n] : \A i, j \in 1..n : i # j => p[i] # p[j]}

\* C14: after every step of a scan total_files, total_bytes, odd_files and
\* odd_saved_bytes_total equal the sums of the per-type file counts, of the per-type
\* byte counts, of the per-type file counts over the codes 14..21 and of the
\* per-type savings; and the stats returned are those of the scan of the same files
\* in every other order.
C14_AccumulatorConsistent ==
    /\ Consistent(sAcc)
    /\ sPc = "done" =>
        /\ Consistent(sResult)
        /\ \A p \in Orders(Len(sWalked)) :
               sResult = scan_return(ScanAll([i \in 1..Len(sWalked) |-> sWalked[p[i]]]))

\* A scan has returned after an odd-byte file of count 0 and a decodable file of
\* another type, in that order.
C14_Witness ==
    /\ sPc = "done"
    /\ Len(sWalked) = 2
    /\ sWalked[1].name = "a.bt"
    /\ sWalked[2].name = "a.bt"
    /\ ~IsBad(sWalked[1])
    /\ ~IsBad(sWalked[2])
    /\ TypeOf(sWalked[1]) = 14
    /\ CountOf(sWalked[1]) = 0
    /\ TypeOf(sWalked[2]) = 6
    /\ sResult.odd_files = 1
    /\ sResult.total_files = 2

(***************************************************************************)
(* Claims about the merge.                                                 *)
(***************************************************************************)
\* The merge has read every column of files and gone on to build the table.
Merged ==
    /\ mPc \in {"exit", "returned"}
    /\ mFiles # <<>>
    /\ Len(mColumns) = Len(mFiles)

ColumnLengths == {Len(mColumns[c].value.values) : c \in 1..Len(mColumns)}

LongestColumn == CHOOSE n \in ColumnLengths : \A k \in ColumnLengths : k <= n

\* The double that equals the integer element exactly.
ExactDouble(dtype, bytes) ==
    LET w   == UnpackInt64(Widen(dtype, bytes))
        neg == dtype \in SignedDtypes /\ IsNeg64(w)
    IN  [neg |-> neg, mag |-> (IF neg THEN Neg64(w) ELSE w) \o <<0>>]

\* The cell holds the element: its bytes, or for an integer element the double of
\* the same value.
Keeps(cell, dtype, bytes) ==
    \/ cell.kind = "value" /\ cell.raw = bytes
    \/ cell.kind = "float64" /\ dtype \in IntDtypes /\ cell.f64 = ExactDouble(dtype, bytes)

\* The table is as long as the longest column, every shorter column is missing from
\* its own length on (NaT in a datetime column, NaN in any other), and the mismatch
\* is printed as a warning.
MergeShape ==
    /\ mExit # 1
    /\ mDf.built
    /\ mOutput = to_parquet(mDf)
    /\ mDf.length = LongestColumn
    /\ Len(mDf.columns) = Len(mColumns)
    /\ \A c \in 1..Len(mColumns) :
        LET own == mColumns[c].value
            col == mDf.columns[c]
        IN  /\ col.name = mColumns[c].key
            /\ Len(col.cells) = LongestColumn
            /\ \A i \in (Len(own.values) + 1)..LongestColumn :
                   col.cells[i].kind =
                       (IF own.dtype = "datetime64[ns]" THEN "NaT" ELSE "NaN")
    /\ \E k \in 1..Len(mStderr) : mStderr[k] = <<"WARNING: Columns have different lengths:">>
    /\ \A k \in 1..Len(mStderr) : mStderr[k][1] \notin {"ERROR reading ", "ERROR: "}

MergeKeepsElements ==
    \A c \in 1..Len(mColumns) :
        \A i \in 1..Len(mColumns[c].value.values) :
            Keeps(mDf.columns[c].cells[i], mColumns[c].value.dtype,
                  mColumns[c].value.values[i])

\* C9: a merge of columns of differing lengths does not fail: the table is as long
\* as the longest column, every column keeps its own elements below its own length,
\* every cell of a shorter column from its length up to the maximum is the missing
\* value, and the mismatch is reported as a warning, not an error.
C9_MismatchedMerge ==
    (Merged /\ Cardinality(ColumnLengths) > 1) => (MergeShape /\ MergeKeepsElements)

\* The writer's view of a column file that cannot be read: no file, fewer than 16
\* bytes, a type that is not decodable, or fewer payload bytes than the count needs.
Unreadable(file) ==
    \/ ~HasHeader(file)
    \/ file.meta.datatype \notin 2..13
    \/ ~Fits(file.meta.count, WidthOf(file.meta.datatype), Len(file.bytes))

FirstUnreadable(files) ==
    CHOOSE k \in 1..Len(files) :
        /\ Unreadable(files[k].value)
        /\ \A j \in 1..(k - 1) : ~Unreadable(files[j].value)

\* C10: a merge never reads past a column that cannot be read and never builds a
\* table or writes an output file when one of its columns cannot be read; it ends,
\* however many columns were read before, with the error on stderr and exit code 1;
\* and main on a single input file that cannot be read ends the same way.
C10_ReadErrorsFatal ==
    /\ (mFiles # <<>> /\ \E k \in 1..Len(mFiles) : Unreadable(mFiles[k].value)) =>
        LET k == FirstUnreadable(mFiles) IN
        /\ ~mDf.built
        /\ ~mOutput.written
        /\ mAttempts <= k
        /\ Len(mColumns) = (IF mAttempts < k THEN mAttempts ELSE k - 1)
        /\ mPc \in {"reading", "exit"}
        /\ (mPc = "reading") = (mAttempts < k)
        /\ mPc = "exit" =>
            /\ mExit = 1
            /\ SubSeq(mStderr[Len(mStderr)], 1, 3) =
                   <<"ERROR reading ", mFiles[k].key, ": ">>
            /\ Len(mStderr[Len(mStderr)]) > 3
    /\ (mCall.entry = "main" /\ mCall.single /\ mCall.output /\ mPc = "exit"
            /\ Unreadable(mCall.directory[1].file)) =>
        /\ mExit = 1
        /\ ~mDf.built
        /\ ~mOutput.written
        /\ mStderr[Len(mStderr)][1] \in {"ERROR: ", "ERROR: Input path does not exist: "}

\* main's merge of two columns has read the first and ended on the second, a file
\* of an unknown type, with exit code 1.
C10_Witness ==
    /\ mCall.entry = "main"
    /\ mPc = "exit"
    /\ mExit = 1
    /\ Len(mFiles) = 2
    /\ Len(mColumns) = 1
    /\ ~Unreadable(mFiles[1].value)
    /\ HasHeader(mFiles[2].value)
    /\ mFiles[2].value.meta.datatype = 22
    /\ mStderr[Len(mStderr)][4] = "Unsupported DataType: "

\* The elements the column file holds, as its header's type and count lay them out.
RawElements(file) ==
    LET w == WidthOf(file.meta.datatype) IN
    [i \in 1..file.meta.count[1] |-> SubSeq(file.bytes, 16 + (i - 1) * w + 1, 16 + i * w)]

\* The same elements routed through the epoch converter of the file's type.
EpochConverted(file) ==
    IF file.meta.datatype = 12
    THEN [i \in 1..file.meta.count[1] |->
             PackInt64(convert_datetime(<<UnpackInt64(RawElements(file)[i])>>)[1])]
    ELSE [i \in 1..file.meta.count[1] |->
             PackInt64(convert_unixseconds(<<UnpackInt32(RawElements(file)[i])>>)[1])]

IsTimeName(name) == lower(name) \in {"timestamp", "datetime", "time"}

\* What the merge must hold for a column of a time encoding, given the flag its
\* caller supplied ("none" when the caller supplied no flag).
RoutedColumn(name, file, flag) ==
    IF flag = "on" \/ (flag = "none" /\ IsTimeName(name))
    THEN EpochConverted(file) ELSE RawElements(file)

\* C11 (as amended): in a merge the column's name alone decides: a column named
\* timestamp, datetime or time in any case is converted when its type is DateTime or
\* UnixSeconds, and every other column is left raw.
C11_NameHeuristic ==
    \A c \in 1..Len(mColumns) :
        LET file == mFiles[c].value IN
        mColumns[c].value.values =
            (IF file.meta.datatype \in {12, 13}
             THEN RoutedColumn(mColumns[c].key, file, "none")
             ELSE RawElements(file))

\* C11 (as stated): in a merge a time-named column (timestamp, datetime, time in any case) is
\* converted without a flag, and a flag the caller supplies for a column takes
\* precedence over the name: flagged off it is left raw, flagged on it is converted.
C11_FlagPrecedence ==
    \A c \in 1..Len(mColumns) :
        LET file == mFiles[c].value IN
        file.meta.datatype \in {12, 13} =>
            \A flag \in {"none", "on", "off"} :
                mColumns[c].value.values = RoutedColumn(mColumns[c].key, file, flag)

\* A merge has read TIME, a DateTime column, as datetime64 with its second element
\* one second after the epoch, and Close, a DateTime column too, as raw int64 ticks.
C11_Witness ==
    /\ Len(mColumns) = 2
    /\ mColumns[1].key = "TIME"
    /\ mFiles[1].value.meta.datatype = 12
    /\ mColumns[1].value.dtype = "datetime64[ns]"
    /\ UnpackInt64(mColumns[1].value.values[2]) = Mul64(Mul64(Mul64(<<1, 0, 0, 0>>, 1000), 1000), 1000)
    /\ mColumns[2].key = "Close"
    /\ mFiles[2].value.meta.datatype = 12
    /\ mColumns[2].value.dtype = "int64"
    /\ UnpackInt64(mColumns[2].value.values[1]) = DOTNET_TO_UNIX_TICKS

\* The directory holds no column file for this run: with --columns, none of the
\* names has an existing .mmf or .bt file; without, it lists no .mmf or .bt entry.
NoColumnFile(directory, columns) ==
    IF columns # <<>>
    THEN \A k \in 1..Len(columns) :
             ~\E i \in 1..Len(directory) :
                 /\ directory[i].stem = columns[k]
                 /\ directory[i].ext \in {".mmf", ".bt"}
                 /\ directory[i].file.exists
    ELSE ~\E i \in 1..Len(directory) : directory[i].ext \in {".mmf", ".bt"}

\* C13: convert_to_parquet on an empty dict raises "No files to convert" before it
\* reads a file or writes any output; main on a directory in which no column file is
\* found (none listed, or none of the --columns names present) prints the error
\* and exits with code 1 without reading a file or writing an output file.
C13_EmptyInput ==
    /\ (mCall.entry = "convert_to_parquet" /\ mCall.files = <<>> /\ mPc # "start") =>
        /\ mPc = "raised"
        /\ mRaised = <<"No files to convert">>
        /\ mAttempts = 0
        /\ mColumns = <<>>
        /\ ~mDf.built
        /\ ~mOutput.written
    /\ (mCall.entry = "main" /\ mCall.output /\ ~mCall.single /\ mPc # "start"
            /\ NoColumnFile(mCall.directory, mCall.columns)) =>
        /\ mPc = "exit"
        /\ mExit = 1
        /\ mAttempts = 0
        /\ mColumns = <<>>
        /\ ~mDf.built
        /\ ~mOutput.written
        /\ \E k \in 1..Len(mStderr) :
               mStderr[k][1] = "ERROR: No .mmf or .bt files found in "
    /\ mPc = "raised" => (mCall.entry = "convert_to_parquet" /\ mCall.files = <<>>)

\* main has exited with code 1 on a directory that lists two column files, neither
\* of them under a name --columns asked for.
C13_Witness ==
    /\ mCall.entry = "main"
    /\ mCall.columns = <<"Close", "Open">>
    /\ Len(mCall.directory) = 2
    /\ \A i \in 1..2 : mCall.directory[i].file.exists /\ mCall.directory[i].stem # "Close"
    /\ mPc = "exit"
    /\ mExit = 1
    /\ ~mOutput.written
    /\ mStderr[Len(mStderr)] = <<"Searched for: ", "Close", "Open">>

(***************************************************************************)
(* Claims about read_mmf.                                                  *)
(***************************************************************************)
\* The numpy dtype of the raw elements of each decodable type.
RawDtype ==
    2 :> "int8" @@ 3 :> "uint8" @@ 4 :> "int16" @@ 5 :> "uint16" @@ 6 :> "int32" @@
    7 :> "uint32" @@ 8 :> "int64" @@ 9 :> "uint64" @@ 10 :> "float32" @@
    11 :> "float64" @@ 12 :> "int64" @@ 13 :> "int32"

\* C12: read_mmf returns a result exactly for the files read_listmmf can decode; with
\* conversion requested the elements are the ticks converter's output when the
\* header type is 12 and the seconds converter's when it is 13; for every other type,
\* and always without conversion requested, they are the raw elements unchanged; in
\* every case there are exactly header.count of them, in the file's order.
C12_ReadMmfRouting ==
    rPc = "done" =>
        /\ rResult.ok = ~Unreadable(rFile)
        /\ rResult.ok =>
            LET dt == rFile.meta.datatype
                converted == rAsDatetime /\ dt \in {12, 13}
            IN  /\ Len(rResult.array.elems) = rFile.meta.count[1]
                /\ rResult.array.elems =
                       (IF converted THEN EpochConverted(rFile) ELSE RawElements(rFile))
                /\ rResult.array.dtype =
                       (IF converted THEN "datetime64[ns]" ELSE RawDtype[dt])

\* Two DateTime elements have been read with conversion requested and came back as
\* datetime64.
C12_Witness ==
    /\ rPc = "done"
    /\ rAsDatetime
    /\ rResult.ok
    /\ rFile.meta.datatype = 12
    /\ Len(rResult.array.elems) = 2
    /\ rResult.array.dtype = "datetime64[ns]"
    /\ rResult.array.elems # RawElements(rFile)

====
